---- MODULE Spec2Model ----
(***************************************************************************)
(* Unit quaternions (quaternions/quaternion.py).                           *)
(*                                                                         *)
(* Numbers.  A real number x is held as the integer x * Scale (fixed       *)
(* point).  Sums, differences and products are exact: a product of two     *)
(* numbers of denominators d1 and d2 has denominator d1 * d2, and every    *)
(* value that is not a stored unit quaternion carries its denominator.     *)
(* The two irrational steps of the code, the square root and the division  *)
(* by a norm, round to the nearest grid point.  Stored unit quaternions    *)
(* always have denominator Scale.                                          *)
(***************************************************************************)
EXTENDS Integers, Sequences, FiniteSets, TLC

VARIABLES q, op, arg, out, aux

vars == <<q, op, arg, out, aux>>

(* ------------------------------ bounds --------------------------------- *)

\* grid resolution: the real number 1 is the integer Scale
Scale == 20

\* raw constructor arguments (in grid units): the integer 4-tuples whose
\* absolute values sum to at most MaxRaw
MaxRaw == 3

(* --------------------------- base algebra ------------------------------ *)

\* general_quaternion.DEFAULT_TOLERANCE, in grid units
DEFAULT_TOLERANCE == 2

Abs(x) == IF x < 0 THEN -x ELSE x

\* np.sign
sign(x) == IF x > 0 THEN 1 ELSE IF x < 0 THEN -1 ELSE 0

\* squared Euclidean norm of a 4-tuple (exact)
norm2(c) == c[1] * c[1] + c[2] * c[2] + c[3] * c[3] + c[4] * c[4]

\* the integer nearest to sqrt(num / dn), for num >= 0 and dn > 0
sqrt(num, dn) ==
    IF 4 * num < dn THEN 0
    ELSE CHOOSE k \in 1..(2 * Scale + 4) :
            /\ (2 * k - 1) * (2 * k - 1) * dn <= 4 * num
            /\ 4 * num < (2 * k + 1) * (2 * k + 1) * dn

\* GeneralQuaternion.__neg__ : coordinate-wise negation
neg(c) == [i \in 1..4 |-> -c[i]]

\* GeneralQuaternion.__mul__ on two quaternions (the Q^op product:
\* coordinates of the Hamilton product p * q), exact, denominators multiply
gq_mul(a, b) ==
    << a[1] * b[1] - a[2] * b[2] - a[3] * b[3] - a[4] * b[4],
       a[2] * b[1] + a[1] * b[2] + a[4] * b[3] - a[3] * b[4],
       a[3] * b[1] - a[4] * b[2] + a[1] * b[3] + a[2] * b[4],
       a[4] * b[1] + a[3] * b[2] - a[2] * b[3] + a[1] * b[4] >>

\* GeneralQuaternion.__mul__ on a scalar
gq_scale(a, s) == [i \in 1..4 |-> s * a[i]]

\* squared GeneralQuaternion.euclidean_distance (exact)
euclidean_distance2(a, b) ==
    (a[1] - b[1]) * (a[1] - b[1]) + (a[2] - b[2]) * (a[2] - b[2])
  + (a[3] - b[3]) * (a[3] - b[3]) + (a[4] - b[4]) * (a[4] - b[4])

\* GeneralQuaternion.is_equal : coordinates match within the tolerance
gq_is_equal(a, b, tolerance) == euclidean_distance2(a, b) < tolerance * tolerance

(* ---------------------------- results ---------------------------------- *)

UnitQ(c)        == [kind |-> "Quaternion", val |-> c, den |-> Scale]
GeneralQ(c, d)  == [kind |-> "GeneralQuaternion", val |-> c, den |-> d]
Vector(c, d)    == [kind |-> "vector", val |-> c, den |-> d]
Raised(e)       == [kind |-> e, val |-> <<>>, den |-> 0]

(* ------------------------- Quaternion.__init__ -------------------------- *)

\* variant: the coordinates are stored as given, not divided by the norm
normalized_undivided(raw) == raw

\* q / norm, each coordinate rounded to the grid
normalized(raw) ==
    [i \in 1..4 |-> sign(raw[i]) * sqrt(raw[i] * raw[i] * Scale * Scale, norm2(raw))]

\* variant: a norm equal to the threshold is rejected too
Quaternion_le(raw, den) ==
    IF norm2(raw) * Scale * Scale <= DEFAULT_TOLERANCE * DEFAULT_TOLERANCE * den * den
    THEN Raised("QuaternionError")
    ELSE UnitQ(normalized(raw))

\* Quaternion(qr, qi, qj, qk) for arguments of denominator den
Quaternion(raw, den) ==
    IF norm2(raw) * Scale * Scale < DEFAULT_TOLERANCE * DEFAULT_TOLERANCE * den * den
    THEN Raised("QuaternionError")
    ELSE UnitQ(normalized(raw))

\* GeneralQuaternion.unit() on the Quaternion class
unit == Quaternion(<<Scale, 0, 0, 0>>, Scale)

(* ------------------------- Quaternion.__mul__ --------------------------- *)

\* operands of self * p, tagged with what isinstance and len tell about them
Operand(t, v, s) == [type |-> t, val |-> v, sized |-> s]

\* the 3x3 rotation matrix of the coordinates c (denominator Scale^2), by rows
matrix(c) ==
    LET qr == c[1]  qi == c[2]  qj == c[3]  qk == c[4] IN
    << << qr * qr + qi * qi - qj * qj - qk * qk,
          2 * (qi * qj + qr * qk),
          2 * (qi * qk - qr * qj) >>,
       << 2 * (qi * qj - qr * qk),
          qr * qr - qi * qi + qj * qj - qk * qk,
          2 * (qj * qk + qr * qi) >>,
       << 2 * (qi * qk + qr * qj),
          2 * (qj * qk - qr * qi),
          qr * qr - qi * qi - qj * qj + qk * qk >> >>

\* np.ndarray.dot of a 3x3 matrix and a 3-vector
dot(m, v) == [i \in 1..3 |-> m[i][1] * v[1] + m[i][2] * v[2] + m[i][3] * v[3]]

\* self * p  (operand denominators: Quaternion and GeneralQuaternion Scale,
\* Number 1, vector 1; a Number s is held as <<s>>)
\* GeneralQuaternion(*self.coordinates) * p
gq_product(self, p) ==
    IF p.type = "Number"
    THEN GeneralQ(gq_scale(self, p.val[1]), Scale)
    ELSE GeneralQ(gq_mul(self, p.val), Scale * Scale)

__mul__(self, p) ==
    IF p.type = "Quaternion" \/ p.type = "Number"
    THEN LET mul == gq_product(self, p)
         IN Quaternion(mul.val, mul.den)
    ELSE IF p.type = "GeneralQuaternion"
    THEN gq_product(self, p)
    ELSE IF p.type = "Iterable"
    THEN IF ~p.sized
         THEN Raised("TypeError")        \* len() of an object without __len__
         ELSE IF Len(p.val) = 3
              THEN Vector(dot(matrix(self), p.val), Scale * Scale)
              ELSE Raised("QuaternionError")
    ELSE Raised("QuaternionError")

\* self(p)
__call__(self, p) == __mul__(self, p)

\* the coordinates self * p hands to the constructor (<<>> if it does not)
mul_ctor(self, p) ==
    IF p.type = "Quaternion" \/ p.type = "Number"
    THEN gq_product(self, p).val
    ELSE <<>>

(* ---------------------- equivalence and metric -------------------------- *)

\* variant: the comparison with -other is missing
is_equal_same_sign(self, other, tolerance) == gq_is_equal(self, other, tolerance)

\* Quaternion.is_equal
is_equal(self, other, tolerance) ==
    gq_is_equal(self, other, tolerance) \/ gq_is_equal(self, neg(other), tolerance)

Min(a, b) == IF a <= b THEN a ELSE b

\* GeneralQuaternion.euclidean_distance, rounded to the grid
euclidean_distance(a, b) == sqrt(euclidean_distance2(a, b), 1)

\* Quaternion.distance
distance(self, other) ==
    Min(euclidean_distance(self, other), euclidean_distance(self, neg(other)))

\* variant: a zero coordinate is taken for a positive one
RECURSIVE pr_scan_ge(_, _)
pr_scan_ge(self, i) ==
    IF i > 4 THEN [kind |-> "None", val |-> <<>>, den |-> 0]
    ELSE IF self[i] >= 0 THEN UnitQ(self)
    ELSE UnitQ(neg(self))

\* the for loop of positive_representant from coordinate i on
RECURSIVE pr_scan(_, _)
pr_scan(self, i) ==
    IF i > 4 THEN [kind |-> "None", val |-> <<>>, den |-> 0]
    ELSE IF self[i] > 0 THEN UnitQ(self)
    ELSE IF self[i] < 0 THEN UnitQ(neg(self))
    ELSE pr_scan(self, i + 1)

\* Quaternion.positive_representant
positive_representant(self) == pr_scan(self, 1)

(* --------------------------- from_matrix -------------------------------- *)

\* ndarray.clip(0, None) on one entry
clip(x) == IF x < 0 THEN 0 ELSE x

\* 4 * qsquare (denominator den) after clipping
qsquare4(mat, den) ==
    LET tr == mat[1][1] + mat[2][2] + mat[3][3] IN
    << clip(den + tr),
       clip(den + 2 * mat[1][1] - tr),
       clip(den + 2 * mat[2][2] - tr),
       clip(den + 2 * mat[3][3] - tr) >>

\* the six sign indicators, in the order of np.triu_indices(4, 1)
signs(mat) ==
    << sign(mat[2][3] - mat[3][2]), sign(mat[3][1] - mat[1][3]),
       sign(mat[1][2] - mat[2][1]), sign(mat[1][2] + mat[2][1]),
       sign(mat[3][1] + mat[1][3]), sign(mat[2][3] + mat[3][2]) >>

\* variant: the diagonal of the sign matrix is left at 0
signs_m_zero_diagonal(mat) ==
    LET s == signs(mat) IN
    << << 0,    s[1], s[2], s[3] >>,
       << s[1], 0,    s[4], s[5] >>,
       << s[2], s[4], 0,    s[6] >>,
       << s[3], s[5], s[6], 0    >> >>

\* the symmetric 4x4 sign matrix with ones on the diagonal
signs_m(mat) ==
    LET s == signs(mat) IN
    << << 1,    s[1], s[2], s[3] >>,
       << s[1], 1,    s[4], s[5] >>,
       << s[2], s[4], 1,    s[6] >>,
       << s[3], s[5], s[6], 1    >> >>

\* ndarray.argmax : the first index of a largest entry
argmax(v) == CHOOSE i \in 1..4 :
                /\ \A j \in 1..4 : v[j] <= v[i]
                /\ \A j \in 1..(i - 1) : v[j] < v[i]

\* the index of the largest squared magnitude
max_idx(mat, den) == argmax(qsquare4(mat, den))

\* the signed square roots handed to the constructor (denominator Scale)
from_matrix_coords(mat, den) ==
    LET qs == qsquare4(mat, den)
        sm == signs_m(mat)
    IN [i \in 1..4 |-> sqrt(qs[i] * Scale * Scale, 4 * den) * sm[max_idx(mat, den)][i]]

\* Quaternion.from_matrix for a matrix of denominator den
from_matrix(mat, den) == Quaternion(from_matrix_coords(mat, den), Scale)

(* ------------------- _first_eigenvector, from_qmethod ------------------- *)

\* the quadratic form v^T K v of a 4x4 matrix
quad(K, v) ==
    LET row(i) == K[i][1] * v[1] + K[i][2] * v[2] + K[i][3] * v[3] + K[i][4] * v[4]
    IN v[1] * row(1) + v[2] * row(2) + v[3] * row(3) + v[4] * row(4)

\* the Rayleigh quotient of a is at most that of b
rayleigh_le(K, a, b) == quad(K, a) * norm2(b) <= quad(K, b) * norm2(a)

\* the directions among which np.linalg.eigh is resolved
EigDirs == { d \in (-1..1) \X (-1..1) \X (-1..1) \X (-1..1) : norm2(d) # 0 }

\* np.linalg.eigh(matrix)[1][:, -1] : the unit eigenvectors of the largest
\* eigenvalue of a symmetric matrix (either sign, any vector of a degenerate
\* eigenspace), to the resolution of EigDirs
eigh_last(K) ==
    LET qv == [d \in EigDirs |-> quad(K, d)]
        n2 == [d \in EigDirs |-> norm2(d)]
    IN { normalized(d) :
            d \in { e \in EigDirs : \A f \in EigDirs : qv[f] * n2[e] <= qv[e] * n2[f] } }

\* the coordinates _first_eigenvector hands to the constructor, vecs_last
\* being the eigenvector eigh returned
first_eigenvector_coords(vecs_last) ==
    IF vecs_last[1] < 0 THEN neg(vecs_last) ELSE vecs_last

\* Quaternion._first_eigenvector, given the eigenvector eigh returned
_first_eigenvector(vecs_last) == Quaternion(first_eigenvector_coords(vecs_last), Scale)

\* sum of f[1..n]
RECURSIVE sum(_, _)
sum(f, n) == IF n = 0 THEN 0 ELSE f[n] + sum(f, n - 1)

\* B = source.dot(np.diag(probabilities)).dot(target.T), or source.dot(target.T);
\* source and target are 3 x n, by rows; probabilities = <<>> stands for None
qmethod_B(source, target, probabilities) ==
    LET n == Len(source[1]) IN
    [i \in 1..3 |-> [k \in 1..3 |->
        IF probabilities # <<>>
        THEN sum([j \in 1..n |-> source[i][j] * probabilities[j] * target[k][j]], n)
        ELSE sum([j \in 1..n |-> source[i][j] * target[k][j]], n)]]

\* variant: z is read from the transposed entries of Z
qmethod_K_transposed(B) ==
    LET sigma == B[1][1] + B[2][2] + B[3][3]
        S == [i \in 1..3 |-> [j \in 1..3 |-> B[i][j] + B[j][i]]]
        Z == [i \in 1..3 |-> [j \in 1..3 |-> B[i][j] - B[j][i]]]
        i == Z[2][3]
        j == Z[3][1]
        k == Z[1][2]
        low == [a \in 1..3 |-> [b \in 1..3 |-> S[a][b] - (IF a = b THEN sigma ELSE 0)]]
    IN << << sigma, i, j, k >>,
          << i, low[1][1], low[1][2], low[1][3] >>,
          << j, low[2][1], low[2][2], low[2][3] >>,
          << k, low[3][1], low[3][2], low[3][3] >> >>

\* the 4x4 matrix K of from_qmethod
qmethod_K(B) ==
    LET sigma == B[1][1] + B[2][2] + B[3][3]
        S == [i \in 1..3 |-> [j \in 1..3 |-> B[i][j] + B[j][i]]]
        Z == [i \in 1..3 |-> [j \in 1..3 |-> B[i][j] - B[j][i]]]
        i == Z[3][2]
        j == Z[1][3]
        k == Z[2][1]
        identity == [a \in 1..3 |-> [b \in 1..3 |-> IF a = b THEN 1 ELSE 0]]
        low == [a \in 1..3 |-> [b \in 1..3 |-> S[a][b] - sigma * identity[a][b]]]
    IN << << sigma, i, j, k >>,
          << i, low[1][1], low[1][2], low[1][3] >>,
          << j, low[2][1], low[2][2], low[2][3] >>,
          << k, low[3][1], low[3][2], low[3][3] >> >>

(* --------------- log, rotation vectors, integration --------------------- *)

(* A 3-vector in axis-angle form is held as <<angle, axis>>: the vector of  *)
(* length angle * pi/6 along the integer direction axis.                    *)

\* Scale * cos(k * pi/6), rounded to the grid
cos_pi6(k) ==
    LET r3 == sqrt(3 * Scale * Scale, 4)
        h  == sqrt(Scale * Scale, 4)
    IN << Scale, r3, h, 0, -h, -r3, -Scale, -r3, -h, 0, h, r3 >>[(k % 12) + 1]

\* Scale * sin(k * pi/6), rounded to the grid
sin_pi6(k) == cos_pi6(k + 9)

\* GeneralQuaternion.exp on [0, a, b, c] with (a, b, c) # 0, for the class
\* Quaternion: cls(cos |v|, sin |v| * v / |v|)
exp(imag) ==
    LET ang == imag[1]
        ax == imag[2]
        n2 == ax[1] * ax[1] + ax[2] * ax[2] + ax[3] * ax[3]
        s == sin_pi6(ang)
        part(i) == sign(s) * sign(ax[i]) * sqrt(s * s * ax[i] * ax[i], n2)
    IN Quaternion(<< cos_pi6(ang), part(1), part(2), part(3) >>, Scale)

\* Quaternion.from_rotation_vector : exp([0, a, b, c]) with (a, b, c) = xyz / 2
from_rotation_vector(xyz) == exp(<< xyz[1] \div 2, xyz[2] >>)

\* np.arctan2(y, x) for y >= 0, in units of pi/6, rounded to the grid: the
\* first k whose direction (cos, sin) is nearest to (x, y)
arctan2(y, x) ==
    CHOOSE k \in 0..6 :
        /\ \A j \in 0..6 : x * cos_pi6(j) + y * sin_pi6(j) <= x * cos_pi6(k) + y * sin_pi6(k)
        /\ \A j \in 0..(k - 1) : x * cos_pi6(j) + y * sin_pi6(j) < x * cos_pi6(k) + y * sin_pi6(k)

\* the imaginary part of Quaternion.log, in axis-angle form (imag and
\* qr / norm are taken times norm, which changes neither test nor angle)
log(self) ==
    LET imag == << self[2], self[3], self[4] >>
        imag_norm2 == imag[1] * imag[1] + imag[2] * imag[2] + imag[3] * imag[3]
    IN IF imag_norm2 = 0
       THEN IF self[1] > 0 THEN << 0, <<0, 0, 0>> >> ELSE << 6, <<1, 0, 0>> >>
       ELSE << arctan2(sqrt(imag_norm2, 1), self[1]), imag >>

\* Quaternion.rotation_vector : (2 * self.log()).coordinates[1:]
rotation_vector(self) == << 2 * log(self)[1], log(self)[2] >>

\* variant: the increments are kept in input order
RECURSIVE forward_increments(_)
forward_increments(vectors) ==
    IF vectors = <<>> THEN <<>>
    ELSE <<from_rotation_vector(Head(vectors)).val>> \o forward_increments(Tail(vectors))

\* list(map(Quaternion.from_rotation_vector, vectors))[::-1]
RECURSIVE reversed_increments(_)
reversed_increments(vectors) ==
    IF vectors = <<>> THEN <<>>
    ELSE Append(reversed_increments(Tail(vectors)), from_rotation_vector(Head(vectors)).val)

(* ------------------------------ inputs --------------------------------- *)

RawCoord == -MaxRaw..MaxRaw
\* raw tuples whose coordinates differ in magnitude
MixedRaws == { <<-2, -2, -1, 2>>, <<1, -2, 0, 2>>, <<7, -4, -2, -1>> }

\* the 4-tuples given to the constructor
RawTuples ==
    { t \in RawCoord \X RawCoord \X RawCoord \X RawCoord :
        Abs(t[1]) + Abs(t[2]) + Abs(t[3]) + Abs(t[4]) <= MaxRaw }
    \cup MixedRaws

\* unit quaternions used as right operands
QOperands ==
    { Quaternion(r, Scale).val :
        r \in { <<1, 1, 1, 1>>, <<0, 2, 0, 0>>, <<1, -2, 0, 2>>, <<0, 0, -2, 2>> } }

\* the right operands of * and of a call
Operands ==
    { Operand("Quaternion", c, TRUE) : c \in QOperands }
    \cup { Operand("Number", <<s>>, FALSE) : s \in {0, 2, -1} }
    \cup { Operand("GeneralQuaternion", c, TRUE) :
            c \in { <<0, 0, 0, 0>>, <<2 * Scale, 0, Scale, 0>> } }
    \cup { Operand("Iterable", v, TRUE) :
            v \in { <<1, 0, 0>>, <<1, -2, 3>>, <<1, 2>>, <<1, 2, 3, 4>>, <<>> } }
    \cup { Operand("Iterable", <<1, 2>>, FALSE) }         \* a generator
    \cup { Operand("NoneType", <<>>, FALSE) }

\* c with d added to coordinate i
shifted(c, i, d) == [j \in 1..4 |-> IF j = i THEN c[j] + d ELSE c[j]]

\* the quaternions a live value is compared with
Others(c) ==
    { c, neg(c), shifted(c, 2, 1), neg(shifted(c, 2, 1)),
      shifted(c, 3, DEFAULT_TOLERANCE), neg(shifted(c, 3, DEFAULT_TOLERANCE)) }
    \cup QOperands

\* diagonal entries of the matrices given to from_matrix: -MaxEntry..MaxEntry
MaxEntry == 1

\* arbitrary real 3x3 matrices (denominator 1), rotation matrices or not:
\* any diagonal a, any entries b above it, and below it t * b, which makes
\* the off-diagonal part antisymmetric (t = -1), triangular (0) or
\* symmetric (1)
Matrices ==
    { << <<a[1], b[1], b[2]>>, <<t * b[1], a[2], b[3]>>, <<t * b[2], t * b[3], a[3]>> >> :
        a \in [1..3 -> -MaxEntry..MaxEntry], b \in [1..3 -> {-1, 0, 1}],
        t \in {-1, 0, 1} }

\* number of vector observations given to from_qmethod: 1..MaxObs
MaxObs == 2

\* the observed vectors
QVectors == { <<1, 1, 0>>, <<1, -2, 2>> }

\* the 3 x n matrix whose columns are cols
by_columns(cols) == [i \in 1..3 |-> [j \in 1..Len(cols) |-> cols[j][i]]]

\* source, target and probabilities (<<>> for None) of from_qmethod
QInputs ==
    UNION { { [source |-> by_columns(s), target |-> by_columns(t), probabilities |-> w] :
                s \in [1..n -> QVectors], t \in [1..n -> QVectors],
                w \in {<<>>} \cup [1..n -> {1, 2}] } : n \in 1..MaxObs }

\* number of velocity vectors given to integrate_from_velocity_vectors
MaxVectors == 3

\* the velocity vectors: 120 and 240 degrees about diagonals, 180 and 60
\* degrees about coordinate axes
RotVecs ==
    { <<4, <<1, 1, 1>>>>, <<4, <<1, -1, 1>>>>, <<8, <<-1, 1, 1>>>>,
      <<6, <<1, 0, 0>>>>, <<2, <<0, 0, 1>>>> }

VectorLists == UNION { [1..n -> RotVecs] : n \in 0..MaxVectors }

NoValue == [kind |-> "None", val |-> <<>>, den |-> 0]

(* ------------------------------ actions -------------------------------- *)

\* number of chained multiplications
MaxOps == 1

\* aux: n counts the multiplications applied to q; ctor holds the raw tuple
\* the last operation handed to the constructor (<<>> if none); sel holds
\* <<max_idx, signs_m[max_idx]>> of the last from_matrix
Aux(n, ctor, sel) == [n |-> n, ctor |-> ctor, sel |-> sel]

\* the inputs of the static operations and of the constructor
Init ==
    /\ q = <<>>
    /\ out = NoValue
    /\ aux = Aux(0, <<>>, <<>>)
    /\ \/ op = "input" /\ arg \in RawTuples
       \/ op = "input_matrix" /\ arg \in Matrices
       \/ op = "input_qmethod" /\ arg \in QInputs
       \/ op = "input_vectors" /\ arg \in VectorLists

\* a unit quaternion has just been produced and is held in q
Live == op \in {"__init__", "__mul__"} /\ out.kind = "Quaternion"

\* Quaternion(qr, qi, qj, qk) called by the user
Construct ==
    /\ op = "input"
    /\ op' = "__init__"
    /\ out' = Quaternion(arg, Scale)
    /\ q' = out'.val
    /\ aux' = Aux(0, arg, <<>>)
    /\ UNCHANGED arg

\* q = q * p
Mul ==
    /\ Live
    /\ aux.n < MaxOps
    /\ \E p \in Operands :
        /\ op' = "__mul__"
        /\ arg' = p
        /\ out' = __mul__(q, p)
        /\ q' = IF out'.kind = "Quaternion" THEN out'.val ELSE q
        /\ aux' = Aux(aux.n + 1, mul_ctor(q, p), <<>>)

\* q(p)
Call ==
    /\ Live
    /\ \E p \in Operands :
        /\ op' = "__call__"
        /\ arg' = p
        /\ out' = __call__(q, p)
        /\ aux' = Aux(aux.n, mul_ctor(q, p), <<>>)
        /\ UNCHANGED q

\* q.is_equal(other) and q.is_equal(other, tolerance)
IsEqual ==
    /\ Live
    /\ \E other \in Others(q), tolerance \in {DEFAULT_TOLERANCE, 1} :
        /\ op' = "is_equal"
        /\ arg' = <<other, tolerance>>
        /\ out' = [kind |-> "bool", val |-> is_equal(q, other, tolerance), den |-> 0]
        /\ aux' = Aux(aux.n, <<>>, <<>>)
        /\ UNCHANGED q

\* q.distance(other)
Distance ==
    /\ Live
    /\ \E other \in Others(q) :
        /\ op' = "distance"
        /\ arg' = other
        /\ out' = [kind |-> "float", val |-> distance(q, other), den |-> Scale]
        /\ aux' = Aux(aux.n, <<>>, <<>>)
        /\ UNCHANGED q

\* q.positive_representant
PositiveRepresentant ==
    /\ Live
    /\ op' = "positive_representant"
    /\ arg' = <<>>
    /\ out' = positive_representant(q)
    /\ aux' = Aux(aux.n, <<>>, <<>>)
    /\ UNCHANGED q

\* Quaternion.from_matrix(q.matrix)
FromMatrix ==
    /\ Live
    /\ op' = "from_matrix"
    /\ arg' = matrix(q)
    /\ out' = from_matrix(arg', Scale * Scale)
    /\ aux' = Aux(aux.n, from_matrix_coords(arg', Scale * Scale),
                  <<max_idx(arg', Scale * Scale),
                    signs_m(arg')[max_idx(arg', Scale * Scale)]>>)
    /\ UNCHANGED q

\* Quaternion.from_matrix(mat) on an arbitrary matrix
FromMatrixAny ==
    /\ op = "input_matrix"
    /\ op' = "from_matrix_any"
    /\ out' = from_matrix(arg, 1)
    /\ aux' = Aux(0, from_matrix_coords(arg, 1),
                  <<max_idx(arg, 1), signs_m(arg)[max_idx(arg, 1)]>>)
    /\ UNCHANGED <<q, arg>>

\* Quaternion.from_qmethod(source, target, probabilities); sel keeps K
FromQMethod ==
    /\ op = "input_qmethod"
    /\ LET K == qmethod_K(qmethod_B(arg.source, arg.target, arg.probabilities)) IN
       \E vecs_last \in eigh_last(K) :
        /\ op' = "from_qmethod"
        /\ out' = _first_eigenvector(vecs_last)
        /\ aux' = Aux(0, first_eigenvector_coords(vecs_last), K)
    /\ UNCHANGED <<q, arg>>

\* integrate_from_velocity_vectors, line 239 and the initializer of reduce:
\* q holds the accumulated product, sel the increments still to be folded
IntegrateMap ==
    /\ op = "input_vectors"
    /\ op' = "reduce"
    /\ q' = unit.val
    /\ out' = NoValue
    /\ aux' = Aux(0, <<>>, reversed_increments(arg))
    /\ UNCHANGED arg

\* one step of functools.reduce(Quaternion.__mul__, qs, Quaternion.unit())
IntegrateReduce ==
    /\ op = "reduce"
    /\ aux.sel # <<>>
    /\ LET p == Operand("Quaternion", Head(aux.sel), TRUE) IN
        /\ q' = __mul__(q, p).val
        /\ aux' = Aux(aux.n + 1, mul_ctor(q, p), Tail(aux.sel))
    /\ UNCHANGED <<op, arg, out>>

\* return prod.rotation_vector
IntegrateReturn ==
    /\ op = "reduce"
    /\ aux.sel = <<>>
    /\ op' = "integrate_from_velocity_vectors"
    /\ out' = [kind |-> "rotation_vector", val |-> rotation_vector(q), den |-> 0]
    /\ UNCHANGED <<q, arg, aux>>

Next ==
    \/ Construct
    \/ FromMatrixAny
    \/ FromQMethod
    \/ IntegrateMap
    \/ IntegrateReduce
    \/ IntegrateReturn
    \/ Mul
    \/ Call
    \/ IsEqual
    \/ Distance
    \/ PositiveRepresentant
    \/ FromMatrix

Spec == Init /\ [][Next]_vars

(* =============================== claims ================================ *)

\* | norm(c) - 1 | < tolerance, on the grid
WithinTolerance(c) ==
    /\ (Scale - DEFAULT_TOLERANCE) * (Scale - DEFAULT_TOLERANCE) < norm2(c)
    /\ norm2(c) < (Scale + DEFAULT_TOLERANCE) * (Scale + DEFAULT_TOLERANCE)

\* c is raw divided by a positive number, each coordinate within half a
\* grid step: same signs where c is nonzero, and all 2x2 minors of (c, raw)
\* within the rounding bound
DividedByNorm(c, raw) ==
    /\ \A i \in 1..4 : c[i] # 0 => sign(c[i]) = sign(raw[i])
    /\ \A i, j \in 1..4 :
        2 * Abs(c[i] * raw[j] - c[j] * raw[i]) <= Abs(raw[i]) + Abs(raw[j])

\* C1: every Quaternion value produced (by the constructor, by a product, by
\* from_matrix) is the raw 4-tuple handed to the constructor divided by its
\* norm, and its coordinate norm is 1 within the tolerance.
C1_UnitNorm ==
    /\ q # <<>> => WithinTolerance(q)
    /\ out.kind = "Quaternion" => WithinTolerance(out.val)
    /\ (out.kind = "Quaternion" /\ aux.ctor # <<>>) => DividedByNorm(out.val, aux.ctor)

C1_Witness ==
    /\ op = "__mul__"
    /\ arg.type = "Quaternion"
    /\ out.kind = "Quaternion"
    /\ norm2(aux.ctor) # Scale * Scale * Scale * Scale
    /\ \A i \in 1..4 : out.val[i] # 0

\* C2: construction from four numbers whose norm is below the threshold
\* raises the numerical-instability error and yields no quaternion; at or
\* above the threshold it does not raise.
C2_Threshold ==
    op = "__init__" =>
        IF norm2(arg) < DEFAULT_TOLERANCE * DEFAULT_TOLERANCE
        THEN out.kind = "QuaternionError" /\ out.val = <<>> /\ q = <<>>
        ELSE out.kind = "Quaternion" /\ q = out.val

C2_Witness ==
    /\ op = "__init__"
    /\ norm2(arg) = DEFAULT_TOLERANCE * DEFAULT_TOLERANCE - 1
    /\ out.kind = "QuaternionError"

\* the first index of a largest squared coordinate of c
LargestSquare(c) ==
    CHOOSE m \in 1..4 :
        /\ \A j \in 1..4 : c[j] * c[j] <= c[m] * c[m]
        /\ \A j \in 1..(m - 1) : c[j] * c[j] < c[m] * c[m]

\* C3: from_matrix(q.matrix) equals q under is_equal, i.e. it is q or -q
\* within the tolerance.
C3_RoundTrip ==
    op = "from_matrix" =>
        /\ out.kind = "Quaternion"
        /\ is_equal(q, out.val, DEFAULT_TOLERANCE)

\* what does hold of from_matrix(q.matrix): with m the first index of the
\* largest squared component, the sign given to component i is
\* sign(q_m * q_i), a component of sign 0 is 0, and a q of norm exactly 1
\* comes back as q or -q exactly
C3_Signs ==
    op = "from_matrix" =>
        LET m == LargestSquare(q) IN
        /\ aux.sel[1] = m
        /\ \A i \in 1..4 : aux.sel[2][i] = sign(q[m] * q[i])
        /\ \A i \in 1..4 : aux.sel[2][i] = 0 => q[i] = 0
        /\ out.kind = "Quaternion"
        /\ norm2(q) = Scale * Scale => (out.val = q \/ out.val = neg(q))

\* the coordinates of a and b match within the tolerance
Match(a, b, tolerance) ==
    (a[1] - b[1]) * (a[1] - b[1]) + (a[2] - b[2]) * (a[2] - b[2])
  + (a[3] - b[3]) * (a[3] - b[3]) + (a[4] - b[4]) * (a[4] - b[4])
        < tolerance * tolerance

C5_ScalarProduct ==
    (op \in {"__mul__", "__call__"} /\ arg.type = "Number") =>
        /\ out.kind = "GeneralQuaternion"
        /\ op = "__call__" => out.val = [i \in 1..4 |-> arg.val[1] * q[i]]

\* the operands * supports: quaternions, scalars and 3-vectors
Supported(p) ==
    \/ p.type \in {"Quaternion", "GeneralQuaternion", "Number"}
    \/ p.type = "Iterable" /\ p.sized /\ Len(p.val) = 3

\* C6: multiplying by, or calling on, an operand that is not a quaternion, a
\* scalar or a 3-vector raises the unsupported-operand error and nothing else.
C6_Unsupported ==
    (op \in {"__mul__", "__call__"} /\ ~Supported(arg)) => out.kind = "QuaternionError"

\* the cross-covariance source * diag(w) * target^T, entry (i, k)
CrossCov(a, i, k) ==
    LET n == Len(a.source[1])
        w(j) == IF a.probabilities = <<>> THEN 1 ELSE a.probabilities[j]
        RECURSIVE upto(_)
        upto(j) == IF j = 0 THEN 0
                   ELSE upto(j - 1) + a.source[i][j] * w(j) * a.target[k][j]
    IN upto(n)

\* C9: from_qmethod builds K = [[sigma, z^T], [z, S - sigma * I]] from the
\* cross-covariance B, with sigma = trace(B), S = B + B^T and
\* z = (B21 - B12, B02 - B20, B10 - B01) (0-indexed), and hands it to
\* _first_eigenvector; K is symmetric and has trace 0.
C9_QMethod ==
    op = "from_qmethod" =>
        LET K == aux.sel
            B(i, k) == CrossCov(arg, i + 1, k + 1)
            sigma == B(0, 0) + B(1, 1) + B(2, 2)
            z == << B(2, 1) - B(1, 2), B(0, 2) - B(2, 0), B(1, 0) - B(0, 1) >>
        IN
        /\ K[1][1] = sigma
        /\ \A i \in 1..3 : K[1][i + 1] = z[i] /\ K[i + 1][1] = z[i]
        /\ \A i, j \in 1..3 :
            K[i + 1][j + 1] = B(i - 1, j - 1) + B(j - 1, i - 1) - (IF i = j THEN sigma ELSE 0)
        /\ \A i, j \in 1..4 : K[i][j] = K[j][i]
        /\ K[1][1] + K[2][2] + K[3][3] + K[4][4] = 0
        /\ out.kind = "Quaternion"
        /\ \A d \in EigDirs : rayleigh_le(K, d, aux.ctor)

C9_Witness ==
    /\ op = "from_qmethod"
    /\ Len(arg.probabilities) = 2
    /\ arg.probabilities[1] # arg.probabilities[2]
    /\ aux.sel[1][2] # 0 /\ aux.sel[1][3] # 0 /\ aux.sel[1][4] # 0
    /\ aux.sel[1][2] # aux.sel[1][3] /\ aux.sel[1][3] # aux.sel[1][4]
    /\ aux.sel[1][2] # aux.sel[1][4]
    /\ aux.sel[1][1] # 0

\* C10: from_matrix never raises the numerical-instability error, for any
\* real 3x3 matrix: after clipping the largest of the four squared
\* magnitudes is at least 1/4, its sign is +1, and the 4-tuple handed to the
\* constructor has norm at least 1/2.
C10_FromMatrixTotal ==
    op = "from_matrix_any" =>
        LET qs == qsquare4(arg, 1) IN
        /\ out.kind = "Quaternion"
        /\ \E i \in 1..4 : qs[i] >= 1
        /\ aux.sel[2][aux.sel[1]] = 1
        /\ 4 * norm2(aux.ctor) >= Scale * Scale

C10_Witness ==
    /\ op = "from_matrix_any"
    /\ 1 + arg[1][1] + arg[2][2] + arg[3][3] < 0
    /\ arg[1][1] > arg[2][2]
    /\ Cardinality({i \in 1..4 : aux.ctor[i] # 0}) = 1
    /\ out.val = <<0, Scale, 0, 0>>

\* the increment q_i of the velocity vector v
Increment(v) == from_rotation_vector(v).val

\* the product a * b of two unit quaternions, as the stored operator gives it
Times(a, b) == __mul__(a, Operand("Quaternion", b, TRUE)).val

\* (((1 * q_n) * q_(n-1)) * ... ) * q_1 for the velocity vectors vs
RECURSIVE ReverseProduct(_)
ReverseProduct(vs) ==
    IF vs = <<>> THEN <<Scale, 0, 0, 0>>
    ELSE Times(ReverseProduct(Tail(vs)), Increment(Head(vs)))

\* C7: integrate_from_velocity_vectors starts from the identity (1, 0, 0, 0),
\* multiplies the increments from_rotation_vector(v_i) in reverse input
\* order, (((1 * q_n) * q_(n-1)) * ...) * q_1, and returns the rotation
\* vector of the product; for an empty input the product is the identity.
C7_Integrate ==
    /\ (op = "reduce" /\ aux.n = 0) => q = <<Scale, 0, 0, 0>>
    /\ op = "reduce" =>
        q = ReverseProduct(SubSeq(arg, Len(arg) - aux.n + 1, Len(arg)))
    /\ op = "integrate_from_velocity_vectors" =>
        /\ q = ReverseProduct(arg)
        /\ out.val = rotation_vector(ReverseProduct(arg))
        /\ arg = <<>> => q = <<Scale, 0, 0, 0>>

C7_Witness ==
    /\ op = "integrate_from_velocity_vectors"
    /\ Len(arg) = 3
    /\ q # Times(Times(Times(<<Scale, 0, 0, 0>>, Increment(arg[1])), Increment(arg[2])),
                 Increment(arg[3]))
    /\ out.val # rotation_vector(Times(Times(Times(<<Scale, 0, 0, 0>>, Increment(arg[1])),
                                              Increment(arg[2])), Increment(arg[3])))

\* the first nonzero coordinate of c
FirstNonzero(c) == c[CHOOSE i \in 1..4 : c[i] # 0 /\ \A j \in 1..(i - 1) : c[j] = 0]

\* C8: positive_representant returns self when the first nonzero coordinate
\* (in the order qr, qi, qj, qk) is positive and -self when it is negative;
\* the result's first nonzero coordinate is positive and q and -q have the
\* same positive representant.
C8_PositiveRepresentant ==
    op = "positive_representant" =>
        /\ out.kind = "Quaternion"
        /\ FirstNonzero(q) > 0 => out.val = q
        /\ FirstNonzero(q) < 0 => out.val = neg(q)
        /\ FirstNonzero(out.val) > 0
        /\ positive_representant(neg(q)) = out

C8_Witness ==
    /\ op = "positive_representant"
    /\ q[1] = 0 /\ q[2] = 0 /\ q[3] < 0 /\ q[4] > 0
    /\ out.val = neg(q)

====
